---------------------------- MODULE Spec2Model ----------------------------
(***************************************************************************)
(* A model of the OpenRig naming Manager (src/src/openrig/naming/manager.py *)
(* with the rule variants of src/src/openrig/schemas.py).                   *)
(*                                                                         *)
(* Strings are sequences of one-character strings.  A regular expression   *)
(* is kept as the structure get_matching_regex assembles (anchoring, one   *)
(* group per token, separator, strict join or nested optional groups) and  *)
(* is interpreted by a backtracking matcher that tries alternatives in the *)
(* priority order of Python's re module, so captured groups are those of   *)
(* the first successful match.                                             *)
(***************************************************************************)
EXTENDS Integers, Sequences, FiniteSets, TLC

VARIABLES tokens, separator, rules, normalizers, global_rules,
          regex_cache, arg, last, pc, snap, manager_instance

vars == <<tokens, separator, rules, normalizers, global_rules,
          regex_cache, arg, last, pc, snap, manager_instance>>

config == <<tokens, separator, normalizers, global_rules>>

(***************************************************************************)
(* Bounds of the model.                                                    *)
(***************************************************************************)
MaxNameLen == 4
MaxValLen == 2

(***************************************************************************)
(* Strings.                                                                *)
(***************************************************************************)
Empty == << >>

Range(f) == {f[x] : x \in DOMAIN f}

\* The strings over chars of length at most n.
StringsUpTo(chars, n) == UNION {[1..k -> chars] : k \in 0..n}

\* str.startswith at an offset: p occurs in s right after the first i characters.
OccursAt(s, p, i) ==
    /\ i + Len(p) <= Len(s)
    /\ \A j \in 1..Len(p) : s[i + j] = p[j]

\* Python's "p in s" on strings (the empty string is in every string).
Contains(s, p) == \E i \in 0..Len(s) : OccursAt(s, p, i)

\* str.isspace on one character.
IsSpace(c) == c = " "

\* str.isdigit on one character.
IsDigit(c) == c = "1"

RECURSIVE LStrip(_)
LStrip(s) == IF s # Empty /\ IsSpace(Head(s)) THEN LStrip(Tail(s)) ELSE s

RECURSIVE RStrip(_)
RStrip(s) ==
    IF s # Empty /\ IsSpace(s[Len(s)]) THEN RStrip(SubSeq(s, 1, Len(s) - 1)) ELSE s

\* str.strip()
Strip(s) == RStrip(LStrip(s))

\* str.join
RECURSIVE JoinWith(_, _)
JoinWith(parts, sep) ==
    IF parts = << >> THEN Empty
    ELSE IF Len(parts) = 1 THEN parts[1]
    ELSE parts[1] \o sep \o JoinWith(Tail(parts), sep)

\* str.split(sep) for a non-empty sep: cut at the leftmost occurrences.
RECURSIVE SplitFrom(_, _, _, _)
SplitFrom(s, sep, start, i) ==
    IF i + Len(sep) > Len(s) THEN << SubSeq(s, start + 1, Len(s)) >>
    ELSE IF OccursAt(s, sep, i)
         THEN << SubSeq(s, start + 1, i) >>
              \o SplitFrom(s, sep, i + Len(sep), i + Len(sep))
         ELSE SplitFrom(s, sep, start, i + 1)

Split(s, sep) == SplitFrom(s, sep, 0, 0)


(***************************************************************************)
(* Regular expressions.  A pattern is a sequence of symbols; a symbol is a  *)
(* record [sym, set, lits]: an anchor "^" or "$", a backslash "\\", a       *)
(* quantifier "+" or "*", a character class "[]" over set, a negated class  *)
(* "[^]" excluding set, the dot ".", the guarded dot "(?!)." that matches   *)
(* one character where the literal lits[1] does not start, an escaped       *)
(* literal "lit" (lits[1]), an alternation "alt" of the escaped literals    *)
(* lits, or a plain character "chr" (set holds the character).              *)
(***************************************************************************)
Sym(k) == [sym |-> k, set |-> {}, lits |-> << >>]
Caret == Sym("^")
Dollar == Sym("$")
Backslash == Sym("\\")
Plus == Sym("+")
Star == Sym("*")
Dot == Sym(".")
Class(cs) == [sym |-> "[]", set |-> cs, lits |-> << >>]
NotClass(cs) == [sym |-> "[^]", set |-> cs, lits |-> << >>]
NotAhead(lit) == [sym |-> "(?!).", set |-> {}, lits |-> << lit >>]
Alt(opts) == [sym |-> "alt", set |-> {}, lits |-> opts]

\* re.escape(text): a pattern that matches text literally and nothing else.
ReEscape(text) == [sym |-> "lit", set |-> {}, lits |-> << text >>]

IsQuant(x) == x.sym \in {"+", "*"}

\* The parser of the re module on a symbol sequence: a backslash takes the
\* next symbol as a literal character, an atom takes a following quantifier.
\* A backslash with nothing after it leaves the item "bad".
RECURSIVE ParseItems(_)
ParseItems(p) ==
    IF p = << >> THEN << >>
    ELSE IF p[1].sym = "\\"
         THEN IF Len(p) = 1
              THEN << [atom |-> p[1], q |-> "bad"] >>
              ELSE << [atom |-> [sym |-> "chr", set |-> {p[2].sym}, lits |-> << >>],
                       q |-> "1"] >> \o ParseItems(SubSeq(p, 3, Len(p)))
         ELSE IF Len(p) >= 2 /\ IsQuant(p[2])
              THEN << [atom |-> p[1], q |-> p[2].sym] >>
                   \o ParseItems(SubSeq(p, 3, Len(p)))
              ELSE << [atom |-> p[1], q |-> "1"] >> \o ParseItems(Tail(p))

\* re.compile accepts the pattern once it is wrapped in a group "(?:" p ")":
\* a trailing backslash would escape the closing parenthesis.
Compiles(p) == \A j \in 1..Len(ParseItems(p)) : ParseItems(p)[j].q # "bad"

\* Whether a one-character atom accepts the character after offset i.
AtomAccepts(a, s, i) ==
    /\ i < Len(s)
    /\ CASE a.sym = "[]" -> s[i + 1] \in a.set
         [] a.sym = "[^]" -> s[i + 1] \notin a.set
         [] a.sym = "." -> TRUE
         [] a.sym = "chr" -> s[i + 1] \in a.set
         [] a.sym = "(?!)." -> ~OccursAt(s, a.lits[1], i)
         [] OTHER -> FALSE

\* The length of the longest run of characters from offset i the atom accepts.
RECURSIVE RunLen(_, _, _)
RunLen(a, s, i) == IF AtomAccepts(a, s, i) THEN 1 + RunLen(a, s, i + 1) ELSE 0

\* i + hi, i + hi - 1, ..., i + lo: a greedy repetition gives up one at a time.
Descending(i, hi, lo) == [j \in 1..(hi - lo + 1) |-> i + hi - (j - 1)]

\* The offsets at which the alternatives, tried in order, can end.
RECURSIVE AltEnds(_, _, _)
AltEnds(opts, s, i) ==
    IF opts = << >> THEN << >>
    ELSE (IF OccursAt(s, opts[1], i) THEN << i + Len(opts[1]) >> ELSE << >>)
         \o AltEnds(Tail(opts), s, i)

\* Where "$" matches: at the end of the string, and just before a newline
\* that is the last character of the string.
AtEnd(s, i) == i = Len(s) \/ (i = Len(s) - 1 /\ s[Len(s)] = "\n")

\* The offsets at which one item can end when it starts at offset i, in the
\* order the backtracking matcher tries them.
ItemEnds(it, s, i) ==
    CASE it.atom.sym = "^" -> IF i = 0 THEN << i >> ELSE << >>
      [] it.atom.sym = "$" -> IF AtEnd(s, i) THEN << i >> ELSE << >>
      [] it.atom.sym \in {"lit", "alt"} -> AltEnds(it.atom.lits, s, i)
      [] it.q = "+" -> Descending(i, RunLen(it.atom, s, i), 1)
      [] it.q = "*" -> Descending(i, RunLen(it.atom, s, i), 0)
      [] it.q = "1" -> IF AtomAccepts(it.atom, s, i) THEN << i + 1 >> ELSE << >>
      [] OTHER -> << >>

\* The offsets at which a sequence of items can end, in priority order.
RECURSIVE ItemsEnds(_, _, _)
RECURSIVE EachEnd(_, _, _, _)
EachEnd(items, s, ends, j) ==
    IF j > Len(ends) THEN << >>
    ELSE ItemsEnds(items, s, ends[j]) \o EachEnd(items, s, ends, j + 1)

ItemsEnds(items, s, i) ==
    IF items = << >> THEN << i >>
    ELSE EachEnd(Tail(items), s, ItemEnds(items[1], s, i), 1)

FragEnds(frag, s, i) == ItemsEnds(ParseItems(frag), s, i)

\* pattern.match(value) as a boolean: the pattern matches at the start.
Match(pattern, value) == FragEnds(pattern, value, 0) # << >>

\* re.fullmatch(pattern, value) as a boolean.
FullMatch(pattern, value) ==
    \E j \in 1..Len(FragEnds(pattern, value, 0)) :
        FragEnds(pattern, value, 0)[j] = Len(value)

(***************************************************************************)
(* The matcher for the expressions get_matching_regex assembles: a record  *)
(* [anchored, shape, groups, sep] where groups[k] = [name, capture, frag],  *)
(* sep is the escaped separator and shape is "seq" (groups joined by sep)   *)
(* or "opt" (every group after the first in a nested optional group led by  *)
(* sep).                                                                    *)
(***************************************************************************)
NoMatch == [m |-> "none", caps |-> << >>]

\* "$" of an anchored expression.
EndOk(rx, s, e) == rx.anchored => AtEnd(s, e)

RECURSIVE MatchGroups(_, _, _, _)
RECURSIVE TryEnds(_, _, _, _, _, _)

\* Group k has matched s[i+1..e]; match what follows it.
AfterGroup(rx, s, k, i, e) ==
    LET cap == << [name |-> rx.groups[k].name,
                   capture |-> rx.groups[k].capture,
                   val |-> SubSeq(s, i + 1, e)] >>
        sep == rx.sep.lits[1]
        more == IF k < Len(rx.groups) /\ OccursAt(s, sep, e)
                THEN MatchGroups(rx, s, k + 1, e + Len(sep))
                ELSE NoMatch
    IN  IF k = Len(rx.groups)
        THEN IF EndOk(rx, s, e) THEN [m |-> "match", caps |-> cap] ELSE NoMatch
        ELSE IF more.m = "match"
             THEN [m |-> "match", caps |-> cap \o more.caps]
             ELSE IF rx.shape = "opt" /\ EndOk(rx, s, e)
                  THEN [m |-> "match", caps |-> cap]
                  ELSE NoMatch

TryEnds(rx, s, k, i, ends, j) ==
    IF j > Len(ends) THEN NoMatch
    ELSE LET r == AfterGroup(rx, s, k, i, ends[j])
         IN  IF r.m = "match" THEN r ELSE TryEnds(rx, s, k, i, ends, j + 1)

MatchGroups(rx, s, k, i) ==
    TryEnds(rx, s, k, i, FragEnds(rx.groups[k].frag, s, i), 1)

\* re.match(regex, name): "error" is re.error from compiling the expression.
ReMatch(rx, s) ==
    IF \E k \in 1..Len(rx.groups) : ~Compiles(rx.groups[k].frag)
    THEN [m |-> "error", caps |-> << >>]
    ELSE IF rx.groups = << >>
         THEN IF EndOk(rx, s, 0) THEN [m |-> "match", caps |-> << >>] ELSE NoMatch
         ELSE MatchGroups(rx, s, 1, 0)

\* match.groupdict() without the groups that are None.
GroupDict(mt) ==
    LET idx == {j \in 1..Len(mt.caps) : mt.caps[j].capture}
    IN  [n \in {mt.caps[j].name : j \in idx} |->
            mt.caps[CHOOSE j \in idx : mt.caps[j].name = n].val]

(***************************************************************************)
(* Rules (schemas.py): RegexRule, ListRule, CallableRule.  The callable of  *)
(* a CallableRule is one of: "isalpha" (str.isalpha), "raises" (a function  *)
(* that raises when called), "isprintable" (str.isprintable: every          *)
(* character of the model is printable) and "not_callable" (a stored        *)
(* non-callable).                                                           *)
(***************************************************************************)
RegexRule(p) == [kind |-> "regex", pattern |-> p, allowed |-> {}, func |-> ""]
ListRule(a) == [kind |-> "list", pattern |-> << >>, allowed |-> a, func |-> ""]
CallableRule(f) == [kind |-> "callable", pattern |-> << >>, allowed |-> {}, func |-> f]

Letters == {"a", "b"}

\* The characters str.isalpha accepts: the letters and their upper case.
Alphabetic == Letters \cup {"A", "B"}

Returned(v) == [exc |-> "none", val |-> v]
Raised(e) == [exc |-> e, val |-> FALSE]

\* RegexRule.validate
RegexValidate(rule, value) == Returned(FullMatch(rule.pattern, value))

\* ListRule.validate
ListValidate(rule, value) == Returned(value \in rule.allowed)

\* CallableRule.validate
CallableValidate(rule, value) ==
    CASE rule.func = "not_callable" -> Raised("TypeError")
      [] rule.func = "raises" -> Raised("RuntimeError")
      [] rule.func = "isprintable" -> Returned(TRUE)
      [] OTHER -> Returned(value # Empty
                             /\ \A j \in 1..Len(value) : value[j] \in Alphabetic)

\* rule.validate(value), dispatched on the rule's class.
Validate(rule, value) ==
    CASE rule.kind = "regex" -> RegexValidate(rule, value)
      [] rule.kind = "list" -> ListValidate(rule, value)
      [] OTHER -> CallableValidate(rule, value)

\* RegexRule.to_regex_pattern: drop a leading "^" and then a trailing "$".
RegexToPattern(rule) ==
    LET p1 == IF rule.pattern # << >> /\ rule.pattern[1] = Caret
              THEN Tail(rule.pattern) ELSE rule.pattern
    IN  IF p1 # << >> /\ p1[Len(p1)] = Dollar
        THEN SubSeq(p1, 1, Len(p1) - 1) ELSE p1

\* sorted(allowed, key=len, reverse=True), as a sequence.
RECURSIVE SortedByLenDesc(_)
SortedByLenDesc(S) ==
    IF S = {} THEN << >>
    ELSE LET x == CHOOSE y \in S : \A z \in S : Len(z) <= Len(y)
         IN  << x >> \o SortedByLenDesc(S \ {x})

\* The catch-all "[^\s]+".
NonSpaceRun == << NotClass({" "}), Plus >>

\* ListRule.to_regex_pattern
ListToPattern(rule) ==
    LET options == SortedByLenDesc(rule.allowed)
        escaped == SelectSeq(options, LAMBDA opt : opt # Empty)
    IN  IF escaped = << >> THEN NonSpaceRun ELSE << Alt(escaped) >>

\* CallableRule.to_regex_pattern
CallableToPattern(rule) == NonSpaceRun

\* rule.to_regex_pattern(), dispatched on the rule's class.
ToRegexPattern(rule) ==
    CASE rule.kind = "regex" -> RegexToPattern(rule)
      [] rule.kind = "list" -> ListToPattern(rule)
      [] OTHER -> CallableToPattern(rule)

(***************************************************************************)
(* The Manager (manager.py).  rules is a function from the tokens that have *)
(* a rule to their rule, normalizers a function from tokens to the name of  *)
(* a normalizer, global_rules a record [max_length, forbidden_patterns],    *)
(* regex_cache a function from keys <<capture_groups, full_match, strict>>  *)
(* to the expression stored under the key.                                  *)
(***************************************************************************)
TokenSet == Range(tokens)

CacheKeys == BOOLEAN \X BOOLEAN \X BOOLEAN

\* Step 1 of get_matching_regex: the raw pattern of one token under rules rs.
RawPattern(rs, token) ==
    IF token \in DOMAIN rs THEN ToRegexPattern(rs[token])
    ELSE IF Len(tokens) = 1 THEN << Dot, Plus >>
    ELSE IF Len(separator) > 1 THEN << NotAhead(separator), Plus >>
    ELSE << NotClass(Range(separator)), Plus >>

\* Step 2: the named capture group or the non-capturing group of one token.
TokenPattern(rs, token, capture_groups) ==
    [name |-> token, capture |-> capture_groups, frag |-> RawPattern(rs, token)]

\* Step 3: strict joins every group with the separator; otherwise the first
\* group is required and each later one sits in a nested optional group.
\* One group alone gives the same expression either way.
AssembleRegex(rs, capture_groups, full_match, strict) ==
    [anchored |-> full_match,
     shape |-> IF strict \/ Len(tokens) = 1 THEN "seq" ELSE "opt",
     groups |-> [k \in 1..Len(tokens) |-> TokenPattern(rs, tokens[k], capture_groups)],
     sep |-> IF Len(tokens) > 1 THEN ReEscape(separator) ELSE ReEscape(Empty)]

\* What get_matching_regex computes on a cache miss from the rules rs.
ComputeRegex(rs, key) ==
    IF tokens = << >>
    THEN [anchored |-> key[2], shape |-> "seq", groups |-> << >>,
          sep |-> ReEscape(Empty)]
    ELSE AssembleRegex(rs, key[1], key[2], key[3])

\* get_matching_regex on the cache given: the expression returned and the
\* cache left behind.
GetMatchingRegexOn(cache, key) ==
    IF key \in DOMAIN cache
    THEN [ret |-> cache[key], cache |-> cache]
    ELSE [ret |-> ComputeRegex(rules, key),
          cache |-> [k \in DOMAIN cache \cup {key} |->
                        IF k = key THEN ComputeRegex(rules, key) ELSE cache[k]]]

StrictKey == << FALSE, TRUE, TRUE >>
DataKey == << TRUE, TRUE, FALSE >>

\* is_valid_token without its check for the separator.
IsValidTokenByRule(token, value) ==
    IF token \notin DOMAIN rules THEN Returned(TRUE)
    ELSE Validate(rules[token], value)

\* is_valid_token
IsValidToken(token, value) ==
    IF Contains(value, separator) THEN Returned(FALSE)
    ELSE IF token \notin DOMAIN rules THEN Returned(TRUE)
    ELSE Validate(rules[token], value)

EmptyData == [t \in TokenSet |-> Empty]

\* get_data on the cache given: [exc, val, cache]; exc is "re.error" when the
\* expression does not compile.
GetDataOn(cache, name) ==
    LET g == GetMatchingRegexOn(cache, DataKey)
        mt == ReMatch(g.ret, name)
    IN  IF mt.m = "error"
        THEN [exc |-> "re.error", val |-> EmptyData, cache |-> g.cache]
        ELSE IF mt.m = "match"
             THEN [exc |-> "none",
                   val |-> [t \in TokenSet |->
                              IF t \in DOMAIN GroupDict(mt)
                              THEN GroupDict(mt)[t] ELSE Empty],
                   cache |-> g.cache]
             ELSE [exc |-> "none", val |-> EmptyData, cache |-> g.cache]

\* get_token_value on the cache given: [exc, val, cache].
GetTokenValueOn(cache, name, token_name) ==
    LET d == GetDataOn(cache, name)
    IN  IF token_name \notin TokenSet
        THEN [exc |-> "NamingValidationError", val |-> Empty, cache |-> cache]
        ELSE IF d.exc # "none"
             THEN [exc |-> d.exc, val |-> Empty, cache |-> d.cache]
             ELSE [exc |-> "none", val |-> d.val[token_name], cache |-> d.cache]

\* The second pass of is_valid: all(is_valid_token(t, v) for the non-empty
\* values), in token order; the first value that fails or raises decides.
RECURSIVE AllValidFrom(_, _)
AllValidFrom(data, k) ==
    IF k > Len(tokens) THEN Returned(TRUE)
    ELSE IF data[tokens[k]] = Empty THEN AllValidFrom(data, k + 1)
    ELSE LET r == IsValidToken(tokens[k], data[tokens[k]])
         IN  IF r.exc # "none" THEN r
             ELSE IF ~r.val THEN Returned(FALSE)
             ELSE AllValidFrom(data, k + 1)

\* The try block of is_valid: any exception of get_data or of the rules
\* becomes False.
IsValidSecondPass(cache, name) ==
    LET d == GetDataOn(cache, name)
        a == AllValidFrom(d.val, 1)
    IN  IF d.exc # "none" THEN [exc |-> "none", val |-> FALSE, cache |-> d.cache]
        ELSE IF a.exc # "none" THEN [exc |-> "none", val |-> FALSE, cache |-> d.cache]
        ELSE [exc |-> "none", val |-> a.val, cache |-> d.cache]

\* is_valid refusing, besides, a name longer than a positive max_length.
IsValidOnWithinLength(cache, name) ==
    IF name = Empty THEN [exc |-> "none", val |-> FALSE, cache |-> cache]
    ELSE IF global_rules.max_length # 0 /\ Len(name) > global_rules.max_length
         THEN [exc |-> "none", val |-> FALSE, cache |-> cache]
    ELSE LET g == GetMatchingRegexOn(cache, StrictKey)
             mt == ReMatch(g.ret, name)
         IN  IF mt.m = "error"
             THEN [exc |-> "re.error", val |-> FALSE, cache |-> g.cache]
             ELSE IF mt.m # "match"
                  THEN [exc |-> "none", val |-> FALSE, cache |-> g.cache]
                  ELSE IsValidSecondPass(g.cache, name)

\* is_valid on the cache given: [exc, val, cache].
IsValidOn(cache, name) ==
    IF name = Empty THEN [exc |-> "none", val |-> FALSE, cache |-> cache]
    ELSE LET g == GetMatchingRegexOn(cache, StrictKey)
             mt == ReMatch(g.ret, name)
         IN  IF mt.m = "error"
             THEN [exc |-> "re.error", val |-> FALSE, cache |-> g.cache]
             ELSE IF mt.m # "match"
                  THEN [exc |-> "none", val |-> FALSE, cache |-> g.cache]
                  ELSE IsValidSecondPass(g.cache, name)

\* A raw token value (TokenValue): a plain str or an Enum member with a value.
Plain(v) == [enum |-> FALSE, value |-> v]
EnumMember(v) == [enum |-> TRUE, value |-> v]

\* utils.strip_digits: the text without its digits.
StripDigits(text) == SelectSeq(text, LAMBDA c : ~IsDigit(c))

\* str.upper on one character.
Upper(c) == IF c = "a" THEN "A" ELSE IF c = "b" THEN "B" ELSE c

\* utils.capitalize_first: the text with its first character in upper case.
CapitalizeFirst(text) == << Upper(text[1]) >> \o Tail(text)

\* A registered normalizer called on a non-empty string.
ApplyNormalizer(n, raw) ==
    CASE n = "strip_digits" -> IF raw = Empty THEN Empty ELSE StripDigits(raw)
      [] n = "capitalize" -> IF raw = Empty THEN Empty ELSE CapitalizeFirst(raw)
      [] OTHER -> raw

\* _normalize_token_value with the registered normalizer looked up before
\* the empty value is returned.
NormalizeEvenEmpty(token, value) ==
    LET raw == value.value
        call(applied) == << [token |-> token, given |-> raw, applied |-> applied] >>
    IN  IF token \in DOMAIN normalizers
        THEN [val |-> Strip(ApplyNormalizer(normalizers[token], raw)),
              calls |-> call(TRUE)]
        ELSE [val |-> Strip(raw), calls |-> call(FALSE)]

\* _normalize_token_value: [val, calls]; calls logs the call: the token, the
\* unwrapped value given, and whether the registered normalizer was applied
\* to it.
NormalizeTokenValue(token, value) ==
    LET raw == value.value
        call(applied) == << [token |-> token, given |-> raw, applied |-> applied] >>
    IN  IF raw = Empty THEN [val |-> Empty, calls |-> call(FALSE)]
        ELSE IF token \in DOMAIN normalizers
             THEN [val |-> Strip(ApplyNormalizer(normalizers[token], raw)),
                   calls |-> call(TRUE)]
             ELSE [val |-> Strip(raw), calls |-> call(FALSE)]

\* The values joined with the empty ones among them.
JoinAllTokens(data) ==
    JoinWith([k \in 1..Len(tokens) |-> data[tokens[k]]], separator)

\* _join_tokens
JoinTokens(data) ==
    JoinWith(SelectSeq([k \in 1..Len(tokens) |-> data[tokens[k]]],
                       LAMBDA v : v # Empty),
             separator)

\* The outcome of a builder: exc is "none" or the class of the exception;
\* why, unknown, limit and actual are what the message of a
\* NamingValidationError names; normalized and checked log the calls of
\* _normalize_token_value and of is_valid_token, in order.
BuildOutcome(exc, val, why, log) ==
    [exc |-> exc, val |-> val, why |-> why,
     unknown |-> {}, limit |-> 0, actual |-> 0,
     normalized |-> log.normalized, checked |-> log.checked]

NoLog == [normalized |-> << >>, checked |-> << >>]

\* _validate_global_rules: "" when the name passes, else the reason.
FirstForbidden(name) ==
    LET fp == global_rules.forbidden_patterns
        hits == {j \in 1..Len(fp) : Contains(name, fp[j])}
    IN  IF hits = {} THEN 0 ELSE CHOOSE j \in hits : \A h \in hits : j <= h

\* The length check refusing a name of exactly max_length.
ValidateGlobalRulesShort(name) ==
    IF global_rules.max_length # 0 /\ Len(name) >= global_rules.max_length
    THEN "max_length"
    ELSE IF FirstForbidden(name) # 0 THEN "forbidden" ELSE ""

ValidateGlobalRules(name) ==
    IF global_rules.max_length # 0 /\ Len(name) > global_rules.max_length
    THEN "max_length"
    ELSE IF FirstForbidden(name) # 0 THEN "forbidden" ELSE ""

\* The loop of build_name over the declared tokens from position k on, the
\* values of the earlier tokens being in data.
RECURSIVE BuildFrom(_, _, _, _)
BuildFrom(kwargs, k, data, log) ==
    IF k > Len(tokens)
    THEN LET final_name == JoinTokens(data)
             why == ValidateGlobalRules(final_name)
         IN  IF why = "" THEN BuildOutcome("none", final_name, "", log)
             ELSE [BuildOutcome("NamingValidationError", final_name, why, log)
                     EXCEPT !.limit = global_rules.max_length,
                            !.actual = Len(final_name)]
    ELSE LET token == tokens[k]
             raw_value == IF token \in DOMAIN kwargs THEN kwargs[token] ELSE Plain(Empty)
             n == NormalizeTokenValue(token, raw_value)
             log1 == [log EXCEPT !.normalized = @ \o n.calls]
             v == IsValidToken(token, n.val)
             log2 == [log1 EXCEPT !.checked = @ \o << [token |-> token, given |-> n.val] >>]
         IN  IF n.val = Empty
             THEN BuildFrom(kwargs, k + 1, [data EXCEPT ![token] = n.val], log1)
             ELSE IF v.exc # "none" THEN BuildOutcome(v.exc, n.val, "", log2)
             ELSE IF ~v.val
                  THEN BuildOutcome("NamingValidationError", n.val, "invalid_value", log2)
                  ELSE BuildFrom(kwargs, k + 1, [data EXCEPT ![token] = n.val], log2)

\* The builder without its check of the keys.
BuildNameAnyKeys(kwargs) == BuildFrom(kwargs, 1, EmptyData, NoLog)

\* build_name(**kwargs)
BuildName(kwargs) ==
    LET unknown == {key \in DOMAIN kwargs : key \notin TokenSet}
    IN  IF unknown # {}
        THEN [BuildOutcome("NamingValidationError", Empty, "unknown_tokens", NoLog)
                EXCEPT !.unknown = unknown]
        ELSE BuildFrom(kwargs, 1, EmptyData, NoLog)

\* The positional tier of parse: the parts from position k on.
RECURSIVE ParseParts(_, _, _, _)
ParseParts(name, parts, k, temp_data) ==
    IF k > Len(parts) THEN [exc |-> "none", parsed |-> TRUE, data |-> temp_data, str |-> Empty]
    ELSE LET v == IsValidToken(tokens[k], parts[k])
         IN  IF v.exc # "none"
             THEN [exc |-> v.exc, parsed |-> FALSE, data |-> EmptyData, str |-> Empty]
             ELSE IF v.val
                  THEN ParseParts(name, parts, k + 1,
                                  [temp_data EXCEPT ![tokens[k]] = parts[k]])
                  ELSE [exc |-> "none", parsed |-> FALSE, data |-> EmptyData, str |-> name]

\* parse on the cache given: [exc, parsed, data, str, cache]; parsed tells
\* whether a TokenData (data) or the string (str) is returned.
ParseOn(cache, name) ==
    LET unparsed == [exc |-> "none", parsed |-> FALSE, data |-> EmptyData, str |-> name]
        d == GetDataOn(cache, name)
        parts == Split(name, separator)
        WithCache(r, c) == [exc |-> r.exc, parsed |-> r.parsed, data |-> r.data,
                            str |-> r.str, cache |-> c]
    IN  IF name = Empty THEN WithCache(unparsed, cache)
        ELSE IF d.exc # "none"
             THEN WithCache([unparsed EXCEPT !.exc = d.exc, !.str = Empty], d.cache)
        ELSE IF \E t \in TokenSet : d.val[t] # Empty
             THEN WithCache([unparsed EXCEPT !.parsed = TRUE, !.data = d.val,
                                             !.str = Empty], d.cache)
        ELSE IF Len(parts) <= Len(tokens)
             THEN WithCache(ParseParts(name, parts, 1, EmptyData), d.cache)
             ELSE WithCache(unparsed, d.cache)

\* The messages of get_errors.
EmptyNameError == [kind |-> "empty", token |-> "", value |-> Empty, count |-> 0]
TooManyPartsError(n) ==
    [kind |-> "too_many_parts", token |-> "", value |-> Empty, count |-> n]
InvalidValueError(token, part) ==
    [kind |-> "invalid_value", token |-> token, value |-> part, count |-> 0]
PatternError == [kind |-> "pattern", token |-> "", value |-> Empty, count |-> 0]

\* The loop of get_errors over the parts from position k on: [exc, errors].
RECURSIVE PartErrors(_, _, _)
PartErrors(parts, k, errors) ==
    IF k > Len(parts) \/ k > Len(tokens) THEN [exc |-> "none", errors |-> errors]
    ELSE LET v == IsValidToken(tokens[k], parts[k])
         IN  IF v.exc # "none" THEN [exc |-> v.exc, errors |-> errors]
             ELSE PartErrors(parts, k + 1,
                             IF v.val THEN errors
                             ELSE errors \o << InvalidValueError(tokens[k], parts[k]) >>)

\* The last step of get_errors, v being what is_valid gave for the name.
PatternFallback(v) ==
    IF v.exc # "none" THEN [exc |-> v.exc, errors |-> << >>, cache |-> v.cache]
    ELSE [exc |-> "none",
          errors |-> IF v.val THEN << >> ELSE << PatternError >>,
          cache |-> v.cache]

\* get_errors after its loop, positional being what the loop gave.
AfterParts(positional, cache, name) ==
    IF positional.exc # "none"
    THEN [exc |-> positional.exc, errors |-> << >>, cache |-> cache]
    ELSE IF positional.errors # << >>
         THEN [exc |-> "none", errors |-> positional.errors, cache |-> cache]
         ELSE PatternFallback(IsValidOn(cache, name))

\* The count of the parts, then the loop over them.
CountedParts(parts) ==
    PartErrors(parts, 1, IF Len(parts) > Len(tokens)
                         THEN << TooManyPartsError(Len(parts)) >> ELSE << >>)

\* get_errors without the fallback on is_valid.
GetErrorsPositional(cache, name) ==
    LET parts == Split(name, separator)
        counted == IF Len(parts) > Len(tokens)
                   THEN << TooManyPartsError(Len(parts)) >> ELSE << >>
        positional == PartErrors(parts, 1, counted)
    IN  IF name = Empty
        THEN [exc |-> "none", errors |-> << EmptyNameError >>, cache |-> cache]
        ELSE [exc |-> positional.exc,
              errors |-> IF positional.exc = "none" THEN positional.errors ELSE << >>,
              cache |-> cache]

\* get_errors on the cache given: [exc, errors, cache].
GetErrorsOn(cache, name) ==
    IF name = Empty
    THEN [exc |-> "none", errors |-> << EmptyNameError >>, cache |-> cache]
    ELSE AfterParts(CountedParts(Split(name, separator)), cache, name)

(***************************************************************************)
(* The conventions a Manager is constructed with, and the inputs its        *)
(* operations are called with.                                              *)
(***************************************************************************)
NoRules == [t \in {} |-> RegexRule(<< >>)]
NoNormalizers == [t \in {} |-> ""]
Unconstrained == [max_length |-> 0, forbidden_patterns |-> << >>]

Underscore == << "_" >>
DoubleDash == << "-", "-" >>

LettersPlus == << Caret, Class({"a", "b"}), Plus, Dollar >>
AStar == << Caret, Class({"a"}), Star, Dollar >>
AThenDollar == << Caret, Class({"a"}), Backslash, Dollar >>

\* _manager_instance: Optional[Manager] = None
NoInstance == "None"

\* Manager.__init__: the arguments construction accepts (a non-empty
\* separator); chars and valchars are the characters the names and the raw
\* token values of the calls are drawn from.
Convention(tk, sp, rs, ns, gr, chars, valchars) ==
    [tokens |-> tk, separator |-> sp, rules |-> rs, normalizers |-> ns,
     global_rules |-> gr, chars |-> chars, valchars |-> valchars]

Conventions ==
    { Convention(<< "descriptor", "side", "usage" >>, Underscore,
                 ("descriptor" :> RegexRule(LettersPlus))
                     @@ ("side" :> ListRule({<< "a" >>, << "a", "b" >>})),
                 NoNormalizers, Unconstrained, {"a", "b", "_"}, {"a", "b"}),
      Convention(<< "descriptor", "side" >>, Underscore,
                 ("descriptor" :> CallableRule("isalpha")),
                 NoNormalizers, Unconstrained, {"a", "b", "_", " "}, {"a", "_", " "}),
      Convention(<< "descriptor", "side" >>, Underscore,
                 ("side" :> RegexRule(AStar)),
                 NoNormalizers, Unconstrained, {"a", "b", "_"}, {"a", "b", "_"}),
      Convention(<< "descriptor", "side" >>, Underscore,
                 ("side" :> CallableRule("raises")),
                 NoNormalizers, Unconstrained, {"a", "_", " "}, {"a", "_"}),
      Convention(<< "descriptor" >>, Underscore,
                 ("descriptor" :> CallableRule("raises")),
                 NoNormalizers, Unconstrained, {"a", "_", " "}, {"a", " "}),
      Convention(<< "descriptor", "side" >>, Underscore,
                 ("descriptor" :> RegexRule(AThenDollar)),
                 NoNormalizers, Unconstrained, {"a", "_"}, {"a"}),
      Convention(<< "descriptor", "side" >>, DoubleDash,
                 NoRules, NoNormalizers, Unconstrained, {"a", "-"}, {"a", "-"}),
      Convention(<< "descriptor", "side" >>, Underscore,
                 ("side" :> ListRule({<< "a" >>})),
                 ("side" :> "strip_digits"),
                 [max_length |-> 3, forbidden_patterns |-> << << "a", "a" >> >>],
                 {"a", "b", "_"}, {"a", "1", " "}),
      Convention(<< "descriptor", "side" >>, Underscore,
                 ("descriptor" :> CallableRule("isprintable")),
                 NoNormalizers, Unconstrained, {"a", "_", " "}, {"a", " "}),
      Convention(<< "descriptor", "side" >>, Underscore,
                 NoRules, ("descriptor" :> "capitalize"), Unconstrained,
                 {"a", "A", "_"}, {"a", " "}),
      Convention(<< >>, Underscore, NoRules, NoNormalizers, Unconstrained,
                 {"a", "_"}, {"a"}) }

\* The keyword arguments of a build_name call: any of the declared tokens
\* with a raw value, and possibly a key that is no declared token.
RawValues(c) == {Plain(v) : v \in StringsUpTo(c.valchars, MaxValLen)}
                    \cup {EnumMember(<< "a" >>)}

KwargsOf(c) ==
    LET declared == UNION {[ks -> RawValues(c)] : ks \in SUBSET Range(c.tokens)}
    IN  declared \cup {m @@ ("extra" :> Plain(<< "a" >>)) : m \in declared}

NamesOf(c) == StringsUpTo(c.chars, MaxNameLen)

NameArg(n) == [kind |-> "name", name |-> n, kwargs |-> << >>]
KwargsArg(m) == [kind |-> "kwargs", name |-> Empty, kwargs |-> m]
NoArg == [kind |-> "none", name |-> Empty, kwargs |-> << >>]
TokenArg(t, v) == [kind |-> "token", token |-> t, value |-> v]

\* The arguments of an is_valid_token call: a declared token or one that is
\* not declared, and a value that may hold the separator.
TokenArgsOf(c) ==
    {TokenArg(t, v) : t \in Range(c.tokens) \cup {"extra"},
                      v \in StringsUpTo(c.chars, MaxValLen)}

TokenValueArg(n, t) == [kind |-> "token_value", name |-> n, token |-> t]

NoCall == [op |-> "none"]

Constructed(c) ==
    /\ tokens = c.tokens
    /\ separator = c.separator
    /\ rules = c.rules
    /\ normalizers = c.normalizers
    /\ global_rules = c.global_rules
    /\ regex_cache = << >>
    /\ manager_instance = NoInstance
    /\ last = NoCall
    /\ pc = << >>
    /\ snap = << >>

\* A constructed Manager and the argument its operations are called with.
Init ==
    \E c \in Conventions :
        /\ Constructed(c)
        /\ arg \in {NameArg(n) : n \in NamesOf(c)} \cup {KwargsArg(m) : m \in KwargsOf(c)}
                   \cup TokenArgsOf(c)

\* build_name(**arg.kwargs)
BuildNameCall ==
    /\ arg.kind = "kwargs"
    /\ last' = [op |-> "build_name", out |-> BuildName(arg.kwargs)]
    /\ UNCHANGED <<manager_instance, config, rules, regex_cache, arg, pc, snap>>

\* is_valid(arg.name)
IsValidCall ==
    /\ arg.kind = "name"
    /\ LET r == IsValidOn(regex_cache, arg.name)
       IN  /\ last' = [op |-> "is_valid", exc |-> r.exc, val |-> r.val]
           /\ regex_cache' = r.cache
    /\ UNCHANGED <<manager_instance, config, rules, arg, pc, snap>>

\* get_data(arg.name)
GetDataCall ==
    /\ arg.kind = "name"
    /\ LET r == GetDataOn(regex_cache, arg.name)
       IN  /\ last' = [op |-> "get_data", exc |-> r.exc, val |-> r.val]
           /\ regex_cache' = r.cache
    /\ UNCHANGED <<manager_instance, config, rules, arg, pc, snap>>

\* parse(arg.name)
ParseCall ==
    /\ arg.kind = "name"
    /\ LET r == ParseOn(regex_cache, arg.name)
       IN  /\ last' = [op |-> "parse", exc |-> r.exc, parsed |-> r.parsed,
                       data |-> r.data, str |-> r.str]
           /\ regex_cache' = r.cache
    /\ UNCHANGED <<manager_instance, config, rules, arg, pc, snap>>

\* get_errors(arg.name)
GetErrorsCall ==
    /\ arg.kind = "name"
    /\ LET r == GetErrorsOn(regex_cache, arg.name)
       IN  /\ last' = [op |-> "get_errors", exc |-> r.exc, errors |-> r.errors]
           /\ regex_cache' = r.cache
    /\ UNCHANGED <<manager_instance, config, rules, arg, pc, snap>>

\* is_valid_token(arg.token, arg.value)
IsValidTokenCall ==
    /\ arg.kind = "token"
    /\ LET r == IsValidToken(arg.token, arg.value)
       IN  last' = [op |-> "is_valid_token", exc |-> r.exc, val |-> r.val]
    /\ UNCHANGED <<manager_instance, config, rules, regex_cache, arg, pc, snap>>

\* get_token_value(arg.name, arg.token)
GetTokenValueCall ==
    /\ arg.kind = "token_value"
    /\ LET r == GetTokenValueOn(regex_cache, arg.name, arg.token)
       IN  /\ last' = [op |-> "get_token_value", exc |-> r.exc, val |-> r.val]
           /\ regex_cache' = r.cache
    /\ UNCHANGED <<manager_instance, config, rules, arg, pc, snap>>

Next ==
    \/ BuildNameCall
    \/ IsValidTokenCall
    \/ GetErrorsCall
    \/ IsValidCall
    \/ GetDataCall
    \/ ParseCall

Spec == Init /\ [][Next]_vars

(***************************************************************************)
(* The rule setters and get_matching_regex called directly, in any order,   *)
(* on one Manager.                                                          *)
(***************************************************************************)
\* The rules add_rule is called with.
RulePool == {ListRule({<< "a" >>}), CallableRule("isalpha")}

\* The cache left as it is.
KeptCache(cache) == cache

\* self._regex_cache.clear()
ClearedCache(cache) == << >>

\* self.rules[token] = rule
RulesWith(rs, token, rule) ==
    [t \in DOMAIN rs \cup {token} |-> IF t = token THEN rule ELSE rs[t]]

\* self.rules.pop(token, None)
RulesWithout(rs, token) == [t \in DOMAIN rs \ {token} |-> rs[t]]

\* get_matching_regex(capture_groups, full_match, strict)
GetMatchingRegexCall ==
    \E key \in CacheKeys :
        LET r == GetMatchingRegexOn(regex_cache, key)
        IN  /\ last' = [op |-> "get_matching_regex", key |-> key, ret |-> r.ret,
                        hit |-> key \in DOMAIN regex_cache]
            /\ regex_cache' = r.cache
            /\ UNCHANGED <<manager_instance, config, rules, arg, pc, snap>>

\* add_rule(token, rule)
AddRule ==
    \E token \in TokenSet \cup {"extra"}, rule \in RulePool :
        /\ regex_cache' = ClearedCache(regex_cache)
        /\ rules' = RulesWith(rules, token, rule)
        /\ last' = [op |-> "add_rule"]
        /\ UNCHANGED <<manager_instance, config, arg, pc, snap>>

\* remove_rule(token)
RemoveRule ==
    \E token \in TokenSet \cup {"extra"} :
        /\ regex_cache' = ClearedCache(regex_cache)
        /\ rules' = RulesWithout(rules, token)
        /\ last' = [op |-> "remove_rule"]
        /\ UNCHANGED <<manager_instance, config, arg, pc, snap>>

InitCache ==
    \E c \in Conventions :
        /\ Len(c.tokens) <= 2
        /\ c.normalizers = NoNormalizers
        /\ (c.rules = NoRules \/ "side" \in DOMAIN c.rules)
        /\ Constructed(c)
        /\ arg = NoArg

NextCache ==
    \/ GetMatchingRegexCall
    \/ AddRule
    \/ RemoveRule

SpecCache == InitCache /\ [][NextCache]_vars

(***************************************************************************)
(* Concurrent callers of the shared Manager that get_manager hands out.     *)
(* Nothing in add_rule, remove_rule or get_matching_regex takes a lock, so  *)
(* the threads interleave between the statements of these methods.  pc is   *)
(* the statement each thread is at, snap its local variables.               *)
(***************************************************************************)
Readers == {"reader1", "reader2"}
Threads == Readers \cup {"mutator"}

NoLocals == [key |-> StrictKey, result |-> ComputeRegex(NoRules, StrictKey),
             token |-> "", rule |-> CallableRule(""), remove |-> FALSE,
             ret |-> "none"]

InitConc ==
    \E c \in Conventions :
        /\ c.tokens = << "descriptor", "side" >>
        /\ c.rules = NoRules
        /\ tokens = c.tokens
        /\ separator = c.separator
        /\ rules = c.rules
        /\ normalizers = c.normalizers
        /\ global_rules = c.global_rules
        /\ regex_cache = << >>
        /\ manager_instance = NoInstance
        /\ last = NoCall
        /\ arg = NoArg
        /\ pc = [t \in Threads |-> "idle"]
        /\ snap = [t \in Threads |-> NoLocals]

\* A reader enters get_matching_regex with one of the keys is_valid and
\* get_data use.
ReaderCall(t) ==
    /\ pc[t] = "idle"
    /\ \E key \in {StrictKey, DataKey} :
           snap' = [snap EXCEPT ![t] = [NoLocals EXCEPT !.key = key]]
    /\ pc' = [pc EXCEPT ![t] = "check"]
    /\ UNCHANGED <<manager_instance, config, rules, regex_cache, arg, last>>

\* if cache_key in self._regex_cache:
ReaderCheck(t) ==
    /\ pc[t] = "check"
    /\ pc' = [pc EXCEPT ![t] = IF snap[t].key \in DOMAIN regex_cache
                               THEN "hit" ELSE "compute"]
    /\ UNCHANGED <<manager_instance, config, rules, regex_cache, arg, last, snap>>

\* return self._regex_cache[cache_key]: KeyError when the entry has gone.
ReaderHit(t) ==
    /\ pc[t] = "hit"
    /\ snap' = [snap EXCEPT ![t].ret = IF snap[t].key \in DOMAIN regex_cache
                                       THEN "cached" ELSE "KeyError",
                            ![t].result = IF snap[t].key \in DOMAIN regex_cache
                                          THEN regex_cache[snap[t].key] ELSE @]
    /\ pc' = [pc EXCEPT ![t] = "idle"]
    /\ UNCHANGED <<manager_instance, config, rules, regex_cache, arg, last>>

\* Steps 1 to 3: the expression is assembled from self.rules.
ReaderCompute(t) ==
    /\ pc[t] = "compute"
    /\ snap' = [snap EXCEPT ![t].result = ComputeRegex(rules, snap[t].key)]
    /\ pc' = [pc EXCEPT ![t] = "store"]
    /\ UNCHANGED <<manager_instance, config, rules, regex_cache, arg, last>>

\* self._regex_cache[cache_key] = result; return result
ReaderStore(t) ==
    /\ pc[t] = "store"
    /\ regex_cache' = [k \in DOMAIN regex_cache \cup {snap[t].key} |->
                          IF k = snap[t].key THEN snap[t].result ELSE regex_cache[k]]
    /\ snap' = [snap EXCEPT ![t].ret = "computed"]
    /\ pc' = [pc EXCEPT ![t] = "idle"]
    /\ UNCHANGED <<manager_instance, config, rules, arg, last>>

\* The mutator enters add_rule(token, rule) or remove_rule(token).
MutatorCall ==
    /\ pc["mutator"] = "idle"
    /\ \E token \in {"side"}, rule \in RulePool, remove \in BOOLEAN :
           snap' = [snap EXCEPT !["mutator"] =
                       [NoLocals EXCEPT !.token = token, !.rule = rule,
                                        !.remove = remove]]
    /\ pc' = [pc EXCEPT !["mutator"] = "clear"]
    /\ UNCHANGED <<manager_instance, config, rules, regex_cache, arg, last>>

\* self._regex_cache.clear()
MutatorClear ==
    /\ pc["mutator"] = "clear"
    /\ regex_cache' = ClearedCache(regex_cache)
    /\ pc' = [pc EXCEPT !["mutator"] = "assign"]
    /\ UNCHANGED <<manager_instance, config, rules, arg, last, snap>>

\* self.rules[token] = rule, or self.rules.pop(token, None); return
MutatorAssign ==
    /\ pc["mutator"] = "assign"
    /\ rules' = IF snap["mutator"].remove
                THEN RulesWithout(rules, snap["mutator"].token)
                ELSE RulesWith(rules, snap["mutator"].token, snap["mutator"].rule)
    /\ pc' = [pc EXCEPT !["mutator"] = "idle"]
    /\ UNCHANGED <<manager_instance, config, regex_cache, arg, last, snap>>

ReaderStep == \E t \in Readers :
    \/ ReaderCall(t) \/ ReaderCheck(t) \/ ReaderHit(t)
    \/ ReaderCompute(t) \/ ReaderStore(t)

NextConc ==
    \/ ReaderStep
    \/ MutatorCall
    \/ MutatorClear
    \/ MutatorAssign

SpecConc == InitConc /\ [][NextConc]_vars

(***************************************************************************)
(* Concurrent callers of get_manager (specification SpecSingleton).  The    *)
(* function takes no lock, so the callers interleave between its            *)
(* statements.  A Manager instance is named after the caller whose call     *)
(* constructed it; snap holds, for each caller, the instance its call       *)
(* constructed (temp) and the instance it was handed last (ret).            *)
(***************************************************************************)
Callers == {"caller1", "caller2", "caller3"}

NoFrame == [temp |-> NoInstance, ret |-> NoInstance]

InitSingleton ==
    \E c \in Conventions :
        /\ c.tokens = << "descriptor", "side", "usage" >>
        /\ tokens = c.tokens
        /\ separator = c.separator
        /\ rules = c.rules
        /\ normalizers = c.normalizers
        /\ global_rules = c.global_rules
        /\ regex_cache = << >>
        /\ manager_instance = NoInstance
        /\ last = NoCall
        /\ arg = NoArg
        /\ pc = [t \in Callers |-> "idle"]
        /\ snap = [t \in Callers |-> NoFrame]

\* A caller enters get_manager().
GetManagerCall(t) ==
    /\ pc[t] = "idle"
    /\ pc' = [pc EXCEPT ![t] = "check"]
    /\ UNCHANGED <<manager_instance, config, rules, regex_cache, arg, last, snap>>

\* if _manager_instance is None:
GetManagerCheck(t) ==
    /\ pc[t] = "check"
    /\ pc' = [pc EXCEPT ![t] = IF manager_instance = NoInstance
                               THEN "construct" ELSE "return"]
    /\ UNCHANGED <<manager_instance, config, rules, regex_cache, arg, last, snap>>

\* Manager(tokens=TOKENS, ...): the new instance, not yet assigned.
GetManagerConstruct(t) ==
    /\ pc[t] = "construct"
    /\ snap' = [snap EXCEPT ![t].temp = t]
    /\ pc' = [pc EXCEPT ![t] = "assign"]
    /\ UNCHANGED <<manager_instance, config, rules, regex_cache, arg, last>>

\* _manager_instance = <the new instance>
GetManagerAssign(t) ==
    /\ pc[t] = "assign"
    /\ manager_instance' = snap[t].temp
    /\ pc' = [pc EXCEPT ![t] = "return"]
    /\ UNCHANGED <<config, rules, regex_cache, arg, last, snap>>

\* return _manager_instance
GetManagerReturn(t) ==
    /\ pc[t] = "return"
    /\ snap' = [snap EXCEPT ![t].ret = manager_instance]
    /\ pc' = [pc EXCEPT ![t] = "idle"]
    /\ UNCHANGED <<manager_instance, config, rules, regex_cache, arg, last>>

NextSingleton ==
    \E t \in Callers :
        \/ GetManagerCall(t)
        \/ GetManagerCheck(t)
        \/ GetManagerConstruct(t)
        \/ GetManagerAssign(t)
        \/ GetManagerReturn(t)

SpecSingleton == InitSingleton /\ [][NextSingleton]_vars

(***************************************************************************)
(* validate_convention (rules.py), called on a token list, a separator,     *)
(* the rules assembled for the tokens and the separator_rule of the global  *)
(* rules (specification SpecConvention).  A token name is a string of       *)
(* characters here, since the function looks at its characters.             *)
(***************************************************************************)
MaxTokens == 2

\* _IDENTIFIER_RE = re.compile(r"^[a-zA-Z_][a-zA-Z0-9_]*$")
IdentifierRe ==
    << Caret, Class({"a", "b", "A", "_"}), Class({"a", "b", "A", "1", "_"}),
       Star, Dollar >>

\* global_rules.separator_rule: None, or a RuleConfig(type, value) whose
\* value is a pattern when it is a string.
NoSeparatorRule == [given |-> FALSE, type |-> "", is_str |-> FALSE, value |-> << >>]
SeparatorRule(type, is_str, value) ==
    [given |-> TRUE, type |-> type, is_str |-> is_str, value |-> value]

ConventionOutcome(exc, why, detail, token, rule_less) ==
    [exc |-> exc, why |-> why, detail |-> detail, token |-> token,
     rule_less |-> rule_less]

\* rule_less = [t for t in tokens if t not in token_rules]
RuleLess(tks, ruled) == SelectSeq(tks, LAMBDA t : t \notin ruled)

\* for token in tokens: if not _IDENTIFIER_RE.match(token): the position of
\* the first token that does not match, 0 when every token matches.
FirstNonIdentifier(tks) ==
    LET bad == {k \in 1..Len(tks) : ~Match(IdentifierRe, tks[k])}
    IN  IF bad = {} THEN 0 ELSE CHOOSE k \in bad : \A j \in bad : k <= j

\* validate_convention(tokens, separator, token_rules, global_rules), ruled
\* being the tokens token_rules has a rule for.
ValidateConvention(tks, sep, ruled, sep_rule) ==
    LET raise(why, detail, token) ==
            ConventionOutcome("RuleBuilderError", why, detail, token, << >>)
        regex == sep_rule.given /\ sep_rule.type = "regex"
        k == FirstNonIdentifier(tks)
    IN  IF tks = << >> THEN raise("empty_tokens", "", Empty)
        ELSE IF Cardinality(Range(tks)) # Len(tks)
             THEN raise("duplicates", "", Empty)
        ELSE IF sep = Empty THEN raise("empty_separator", "", Empty)
        ELSE IF regex /\ ~sep_rule.is_str
             THEN raise("separator_rule", "value_not_string", Empty)
        ELSE IF regex /\ ~Compiles(sep_rule.value)
             THEN ConventionOutcome("re.error", "", "", Empty, << >>)
        ELSE IF regex /\ ~FullMatch(sep_rule.value, sep)
             THEN raise("separator_rule", "no_match", Empty)
        ELSE IF k # 0 THEN raise("identifier", "", tks[k])
        ELSE ConventionOutcome("none", "", "", Empty, RuleLess(tks, ruled))

\* The token names, the separators and the separator rules of the calls.
TokenNamePool == {<< "a" >>, << "b" >>, << "a", "\n" >>, << "1" >>, << >>}

SeparatorPool == {Empty, << "_" >>, << "_", "\n" >>}

SeparatorRulePool ==
    { NoSeparatorRule,
      SeparatorRule("regex", TRUE, << Caret, Class({"_", "-"}), Dollar >>),
      SeparatorRule("regex", TRUE, << Class({"-"}) >>),
      SeparatorRule("regex", TRUE, << Backslash >>),
      SeparatorRule("regex", FALSE, << >>),
      SeparatorRule("list", FALSE, << >>) }

ConventionArg(tks, sep, ruled, sep_rule) ==
    [kind |-> "convention", tokens |-> tks, separator |-> sep, ruled |-> ruled,
     separator_rule |-> sep_rule]

InitConvention ==
    /\ \E c \in Conventions :
           /\ c.tokens = << "descriptor", "side", "usage" >>
           /\ Constructed(c)
    /\ arg \in {ConventionArg(tks, sep, ruled, sr) :
                   tks \in UNION {[1..n -> TokenNamePool] : n \in 0..MaxTokens},
                   sep \in SeparatorPool,
                   ruled \in {{}, {<< "a" >>}},
                   sr \in SeparatorRulePool}

\* validate_convention(arg.tokens, arg.separator, token_rules, global_rules)
ValidateConventionCall ==
    /\ arg.kind = "convention"
    /\ last' = [op |-> "validate_convention",
                out |-> ValidateConvention(arg.tokens, arg.separator, arg.ruled,
                                           arg.separator_rule)]
    /\ UNCHANGED <<manager_instance, config, rules, regex_cache, arg, pc, snap>>

NextConvention == ValidateConventionCall

SpecConvention == InitConvention /\ [][NextConvention]_vars

(***************************************************************************)
(* The rules called on their own (specification SpecRules): validate and    *)
(* to_regex_pattern of one rule, on one value.                              *)
(***************************************************************************)
RuleArg(rule, value) == [kind |-> "rule", rule |-> rule, value |-> value]

\* The rules of the calls: fixed sets (the empty set and sets holding the
\* empty string among them), predicates, and a pattern.
RuleArgPool ==
    { ListRule({}),
      ListRule({Empty}),
      ListRule({Empty, << "a" >>}),
      ListRule({<< "a" >>, << "a", "b" >>}),
      CallableRule("isalpha"),
      CallableRule("isprintable"),
      CallableRule("raises"),
      CallableRule("not_callable"),
      RegexRule(LettersPlus) }

InitRules ==
    /\ \E c \in Conventions :
           /\ c.tokens = << "descriptor", "side", "usage" >>
           /\ Constructed(c)
    /\ arg \in {RuleArg(r, v) : r \in RuleArgPool,
                                v \in StringsUpTo({"a", "b", " "}, MaxValLen)}

\* arg.rule.validate(arg.value)
ValidateCall ==
    /\ arg.kind = "rule"
    /\ LET r == Validate(arg.rule, arg.value)
       IN  last' = [op |-> "validate", exc |-> r.exc, val |-> r.val]
    /\ UNCHANGED <<manager_instance, config, rules, regex_cache, arg, pc, snap>>

\* arg.rule.to_regex_pattern()
ToRegexPatternCall ==
    /\ arg.kind = "rule"
    /\ last' = [op |-> "to_regex_pattern", pattern |-> ToRegexPattern(arg.rule)]
    /\ UNCHANGED <<manager_instance, config, rules, regex_cache, arg, pc, snap>>

NextRules ==
    \/ ValidateCall
    \/ ToRegexPatternCall

SpecRules == InitRules /\ [][NextRules]_vars

(***************************************************************************)
(* update_name and resolve_name: the builders that take a name, a mapping   *)
(* or a sequence.  While resolve_name runs on the transient Manager it      *)
(* constructs for its overrides, the fields of the model are those of the   *)
(* transient Manager and snap keeps the fields of the caller's Manager.     *)
(***************************************************************************)
\* A TokenData (token -> str) passed on as keyword arguments.
AsKwargs(data) == [t \in DOMAIN data |-> Plain(data[t])]

\* A merge in which a parsed value wins over its override.
MergedKeepingParsed(data, kwargs) ==
    [t \in DOMAIN data \cup DOMAIN kwargs |->
        IF t \in DOMAIN kwargs /\ (t \notin DOMAIN data \/ data[t] = Empty)
        THEN NormalizeTokenValue(t, kwargs[t]).val
        ELSE data[t]]

\* The merge of update_name: data[token] = _normalize_token_value(token, raw)
\* for every override.
MergedData(data, kwargs) ==
    [t \in DOMAIN data \cup DOMAIN kwargs |->
        IF t \in DOMAIN kwargs THEN NormalizeTokenValue(t, kwargs[t]).val
        ELSE data[t]]

\* update_name(name, **kwargs) on the cache given: [out, cache]; out is a
\* builder's outcome, with the exceptions of get_data and of the first
\* token's lookup and check besides those of build_name.
UpdateNameOn(cache, name, kwargs) ==
    LET d == GetDataOn(cache, name)
        is_parsed == \E t \in TokenSet : d.val[t] # Empty
        first == IsValidToken(tokens[1], name)
        seeded == [d.val EXCEPT ![tokens[1]] = name]
        Out(o) == [out |-> o, cache |-> d.cache]
    IN  IF d.exc # "none" THEN Out(BuildOutcome(d.exc, Empty, "", NoLog))
        ELSE IF is_parsed
             THEN Out(BuildName(AsKwargs(MergedData(d.val, kwargs))))
        ELSE IF name = Empty THEN Out(BuildName(kwargs))
        ELSE IF tokens = << >>
             THEN Out(BuildOutcome("IndexError", Empty, "", NoLog))
        ELSE IF first.exc # "none"
             THEN Out(BuildOutcome(first.exc, Empty, "", NoLog))
        ELSE IF first.val
             THEN Out(BuildName(AsKwargs(MergedData(seeded, kwargs))))
             ELSE Out(BuildOutcome("NamingValidationError", Empty, "unparsable", NoLog))

\* The names update_name is called with besides NamesOf: a one-character
\* value for every declared token.
FullNames(c) ==
    {JoinWith(vs, c.separator) :
        vs \in [1..Len(c.tokens) -> {<< ch >> : ch \in c.valchars}]}

\* The overrides of an update_name call: at most one declared token, with or
\* without a key that is no declared token.
\* Short raw values: at most one character, bare or behind a blank, and an
\* Enum member.
ShortValues(c) ==
    {Plain(v) : v \in StringsUpTo(c.valchars, 1)}
        \cup {Plain(<< " ", ch >>) : ch \in IF " " \in c.valchars
                                            THEN c.valchars \ {" "} ELSE {}}
        \cup {EnumMember(<< "a" >>)}

OverridesOf(c) ==
    LET declared == UNION {[{t} -> ShortValues(c)] : t \in Range(c.tokens)}
                        \cup {<< >>}
    IN  declared \cup {m @@ ("extra" :> Plain(<< "a" >>)) : m \in declared}

UpdateArg(n, m) == [kind |-> "update", name |-> n, kwargs |-> m]

\* update_name(arg.name, **arg.kwargs)
UpdateNameCall ==
    /\ arg.kind = "update"
    /\ pc = << >>
    /\ LET r == UpdateNameOn(regex_cache, arg.name, arg.kwargs)
       IN  /\ last' = [op |-> "update_name", out |-> r.out]
           /\ regex_cache' = r.cache
    /\ UNCHANGED <<manager_instance, config, rules, arg, pc, snap>>

\* The values resolve_name takes: a mapping, a sequence or a plain string.
DictValue(m) == [kind |-> "dict", map |-> m, seq |-> << >>, str |-> Empty]
SeqValue(q) == [kind |-> "seq", map |-> << >>, seq |-> q, str |-> Empty]
StrValue(n) == [kind |-> "str", map |-> << >>, seq |-> << >>, str |-> n]

\* An optional argument: None, or the value given.
None == [given |-> FALSE, val |-> << >>]
Given(v) == [given |-> TRUE, val |-> v]
NoOverrides == [tokens |-> None, rules |-> None, normalizers |-> None]

\* zip(self.tokens, value) with every value normalized for its token.
ZippedData(seq) ==
    [t \in {tokens[k] : k \in 1..Len(seq)} |->
        LET k == CHOOSE j \in 1..Len(seq) : tokens[j] = t
        IN  NormalizeTokenValue(t, seq[k]).val]

\* resolve_name(value) without overrides.
ResolveName(value) ==
    CASE value.kind = "dict" -> BuildName(value.map)
      [] value.kind = "seq" ->
            IF Len(value.seq) > Len(tokens)
            THEN [BuildOutcome("NamingValidationError", Empty, "too_many_items", NoLog)
                    EXCEPT !.limit = Len(tokens), !.actual = Len(value.seq)]
            ELSE BuildName(AsKwargs(ZippedData(value.seq)))
      [] OTHER -> BuildOutcome("none", value.str, "", NoLog)

\* The fields of a Manager, as a record.
Fields ==
    [tokens |-> tokens, separator |-> separator, rules |-> rules,
     normalizers |-> normalizers, global_rules |-> global_rules,
     regex_cache |-> regex_cache]

\* A transient Manager that takes the default global rules.
TransientUnconstrained(ov) ==
    [tokens |-> IF ov.tokens.given THEN ov.tokens.val ELSE tokens,
     separator |-> separator,
     rules |-> IF ov.rules.given THEN ov.rules.val ELSE rules,
     normalizers |-> IF ov.normalizers.given THEN ov.normalizers.val ELSE normalizers,
     global_rules |-> Unconstrained,
     regex_cache |-> << >>]

\* Manager(tokens=..., separator=self.separator, rules=..., normalizers=...,
\* global_rules=self.global_rules): the transient Manager of resolve_name.
TransientFields(ov) ==
    [tokens |-> IF ov.tokens.given THEN ov.tokens.val ELSE tokens,
     separator |-> separator,
     rules |-> IF ov.rules.given THEN ov.rules.val ELSE rules,
     normalizers |-> IF ov.normalizers.given THEN ov.normalizers.val ELSE normalizers,
     global_rules |-> global_rules,
     regex_cache |-> << >>]

\* The fields the transient Manager has at the return of temp.resolve_name.
Callee(stack) == Fields

\* The caller's Manager at the return of temp.resolve_name: as it was when
\* the call began, nothing in resolve_name having written to self.
Caller(stack) == stack[1]

\* The fields of the model become those of the record f.
FieldsBecome(f) ==
    /\ tokens' = f.tokens
    /\ separator' = f.separator
    /\ rules' = f.rules
    /\ normalizers' = f.normalizers
    /\ global_rules' = f.global_rules
    /\ regex_cache' = f.regex_cache

Overridden(ov) == ov.tokens.given \/ ov.rules.given \/ ov.normalizers.given

ResolveArg(v, ov) == [kind |-> "resolve", value |-> v, ov |-> ov]

\* get_matching_regex as get_data calls it, on the Manager that resolve_name
\* is about to be called on: its cache holds an entry from then on.
GetDataRegexCall ==
    /\ arg.kind = "resolve"
    /\ pc = << >>
    /\ DataKey \notin DOMAIN regex_cache
    /\ LET r == GetMatchingRegexOn(regex_cache, DataKey)
       IN  /\ last' = [op |-> "get_matching_regex", key |-> DataKey,
                       ret |-> r.ret, hit |-> FALSE]
           /\ regex_cache' = r.cache
    /\ UNCHANGED <<manager_instance, config, rules, arg, pc, snap>>

\* resolve_name(arg.value) with no override.
ResolveNameCall ==
    /\ arg.kind = "resolve"
    /\ pc = << >>
    /\ ~Overridden(arg.ov)
    /\ last' = [op |-> "resolve_name", out |-> ResolveName(arg.value)]
    /\ UNCHANGED <<manager_instance, config, rules, regex_cache, arg, pc, snap>>

\* resolve_name(arg.value, tokens, rules, normalizers) with an override:
\* temp = Manager(...), and the call of temp.resolve_name begins.
ResolveEnterTransient ==
    /\ arg.kind = "resolve"
    /\ pc = << >>
    /\ Overridden(arg.ov)
    /\ snap' = << Fields >>
    /\ FieldsBecome(TransientFields(arg.ov))
    /\ pc' = << "temp.resolve_name" >>
    /\ last' = NoCall
    /\ UNCHANGED <<manager_instance, arg>>

\* return temp.resolve_name(value): the transient Manager resolves the value
\* and the caller's Manager is the current one again.
ResolveReturnTransient ==
    /\ pc = << "temp.resolve_name" >>
    /\ last' = [op |-> "resolve_name", out |-> ResolveName(arg.value)]
    /\ FieldsBecome(Caller(snap))
    /\ pc' = << >>
    /\ snap' = << >>
    /\ UNCHANGED <<manager_instance, arg>>

\* The values of a resolve_name call: a mapping, a sequence of up to one
\* value more than there are tokens, or a short string.
SeqsOf(c) == UNION {[1..k -> ShortValues(c)] : k \in 0..(Len(c.tokens) + 1)}

ResolveValues(c) ==
    {DictValue(m) : m \in OverridesOf(c)}
        \cup {SeqValue(q) : q \in SeqsOf(c)}
        \cup {StrValue(n) : n \in StringsUpTo(c.chars, 1)}

\* The overrides of a resolve_name call.
OverridePool ==
    { NoOverrides,
      [NoOverrides EXCEPT !.tokens = Given(<< "side", "descriptor" >>)],
      [NoOverrides EXCEPT !.tokens = Given(<< >>)],
      [NoOverrides EXCEPT !.rules = Given(NoRules)],
      [NoOverrides EXCEPT !.rules = Given("side" :> ListRule({<< "a" >>}))],
      [NoOverrides EXCEPT !.normalizers = Given(NoNormalizers)],
      [tokens |-> Given(<< "descriptor" >>),
       rules |-> Given("descriptor" :> CallableRule("isalpha")),
       normalizers |-> Given("descriptor" :> "strip_digits")] }

InitBuilders ==
    \E c \in Conventions :
        /\ Constructed(c)
        /\ arg \in {UpdateArg(n, m) :
                       n \in StringsUpTo(c.chars, MaxNameLen - 1) \cup FullNames(c),
                       m \in OverridesOf(c)}
                   \cup {ResolveArg(v, ov) : v \in ResolveValues(c), ov \in OverridePool}

NextBuilders ==
    \/ UpdateNameCall
    \/ GetDataRegexCall
    \/ ResolveNameCall
    \/ ResolveEnterTransient
    \/ ResolveReturnTransient

SpecBuilders == InitBuilders /\ [][NextBuilders]_vars

(***************************************************************************)
(* Two Managers that differ only in their global constraints: from_dict on  *)
(* the to_dict of the first, with another global_rules, constructs the      *)
(* second (specification SpecGlobal).                                       *)
(***************************************************************************)
GlobalRulesPool ==
    { Unconstrained,
      [max_length |-> 1, forbidden_patterns |-> << >>],
      [max_length |-> 0, forbidden_patterns |-> << << "a" >> >>] }

\* Manager.from_dict({**to_dict(), "global_rules": g}): a Manager with the
\* same tokens, separator, rules and normalizers, an empty cache, and g.
\* It is the current Manager from then on; last keeps what the caller got
\* from the Manager before it.
FromDictCall ==
    /\ pc = << >>
    /\ \E g \in GlobalRulesPool \ {global_rules} : global_rules' = g
    /\ regex_cache' = << >>
    /\ UNCHANGED <<manager_instance, tokens, separator, normalizers, rules, arg,
                 last, pc, snap>>

\* The overrides of the resolve_name calls on a plain string: none, or all.
PlainStringOverrides ==
    { NoOverrides,
      [tokens |-> Given(<< "descriptor" >>),
       rules |-> Given("descriptor" :> CallableRule("isalpha")),
       normalizers |-> Given("descriptor" :> "strip_digits")] }

InitGlobal ==
    \E c \in Conventions :
        /\ Constructed(c)
        /\ arg \in {NameArg(n) : n \in StringsUpTo(c.chars, MaxNameLen - 1)}
                   \cup {ResolveArg(StrValue(n), ov) :
                            n \in StringsUpTo(c.chars, MaxValLen),
                            ov \in PlainStringOverrides}

NextGlobal ==
    \/ FromDictCall
    \/ IsValidCall
    \/ GetDataCall
    \/ ParseCall
    \/ GetErrorsCall
    \/ GetDataRegexCall
    \/ ResolveNameCall
    \/ ResolveEnterTransient
    \/ ResolveReturnTransient

SpecGlobal == InitGlobal /\ [][NextGlobal]_vars

(***************************************************************************)
(* Every operation of one Manager, called one after the other               *)
(* (specification SpecFrame).                                               *)
(***************************************************************************)
InitFrame ==
    \E c \in Conventions :
        /\ c.normalizers # NoNormalizers \/ Len(c.tokens) < 2
        /\ Constructed(c)
        /\ \/ arg \in {NameArg(n) : n \in StringsUpTo(c.chars, MaxValLen)}
               \cup {KwargsArg(m) : m \in OverridesOf(c)}
               \cup {TokenArg(t, v) : t \in Range(c.tokens) \cup {"extra"},
                                      v \in StringsUpTo(c.chars, 1)}
               \cup {TokenValueArg(n, t) : n \in StringsUpTo(c.chars, 1),
                                           t \in Range(c.tokens) \cup {"extra"}}
               \cup {UpdateArg(n, m) : n \in StringsUpTo(c.chars, 1),
                                       m \in OverridesOf(c)}
           \/ arg \in {ResolveArg(v, ov) :
                        v \in {DictValue(m) : m \in OverridesOf(c)}
                                 \cup {StrValue(<< "a" >>)},
                        ov \in PlainStringOverrides}

NextFrame ==
    \/ BuildNameCall
    \/ UpdateNameCall
    \/ ResolveNameCall
    \/ ResolveEnterTransient
    \/ ResolveReturnTransient
    \/ ParseCall
    \/ GetDataCall
    \/ GetTokenValueCall
    \/ IsValidCall
    \/ IsValidTokenCall
    \/ GetErrorsCall
    \/ GetDataRegexCall
    \/ (pc = << >> /\ AddRule)
    \/ (pc = << >> /\ RemoveRule)

SpecFrame == InitFrame /\ [][NextFrame]_vars

(***************************************************************************)
(* Properties of the builder and the readers (specification Spec).          *)
(***************************************************************************)
BuildReturned == last.op = "build_name" /\ last.out.exc = "none"

\* Every supplied value is a plain string that normalization leaves as it is.
AlreadyNormalized(kwargs) ==
    \A t \in DOMAIN kwargs :
        /\ ~kwargs[t].enum
        /\ NormalizeTokenValue(t, kwargs[t]).val = kwargs[t].value

\* C1: when build_name accepts a mapping whose values are already in
\* normalized form, get_data of the name built maps every token with a
\* non-empty value in the mapping to exactly that value.
RoundTrip ==
    (BuildReturned /\ AlreadyNormalized(arg.kwargs))
        => LET d == GetDataOn(regex_cache, last.out.val)
           IN  /\ d.exc = "none"
               /\ \A t \in DOMAIN arg.kwargs :
                      arg.kwargs[t].value # Empty => d.val[t] = arg.kwargs[t].value

\* C2: when build_name returns a name, is_valid of that name is true.
BuiltIsValid ==
    BuildReturned
        => LET r == IsValidOn(regex_cache, last.out.val)
           IN  r.exc = "none" /\ r.val

\* The name the claims expect of a mapping: the normalized values of the
\* declared tokens from position k on, in token order, each non-empty one
\* appended to acc behind a separator unless it is the first.
RECURSIVE ExpectedFrom(_, _, _)
ExpectedFrom(kwargs, k, acc) ==
    IF k > Len(tokens) THEN acc
    ELSE LET v == IF tokens[k] \in DOMAIN kwargs
                  THEN NormalizeTokenValue(tokens[k], kwargs[tokens[k]]).val
                  ELSE Empty
         IN  ExpectedFrom(kwargs, k + 1,
                          IF v = Empty THEN acc
                          ELSE IF acc = Empty THEN v
                          ELSE acc \o separator \o v)

ExpectedName == ExpectedFrom(arg.kwargs, 1, Empty)

\* C5: whenever build_name returns, the result is the non-empty normalized
\* values of the declared tokens, in declared token order, joined by the
\* separator; an absent or empty value adds neither a value nor a separator.
BuildJoinsNonEmpty == BuildReturned => last.out.val = ExpectedName

\* A name is built from a first and a last token around a token left out.
BuildSkipsMiddle ==
    /\ BuildReturned
    /\ tokens = << "descriptor", "side", "usage" >>
    /\ DOMAIN arg.kwargs = {"descriptor", "usage"}
    /\ arg.kwargs["descriptor"].value # Empty
    /\ arg.kwargs["usage"].value # Empty

UnknownKeys == DOMAIN arg.kwargs \ Range(tokens)

\* C6: build_name called with a key that is no declared token raises a
\* validation error naming the unknown keys, whatever the other values are,
\* before any value is normalized or checked against a rule.
UnknownKeysRejectedFirst ==
    (last.op = "build_name" /\ UnknownKeys # {})
        => /\ last.out.exc = "NamingValidationError"
           /\ last.out.why = "unknown_tokens"
           /\ last.out.unknown = UnknownKeys
           /\ last.out.normalized = << >>
           /\ last.out.checked = << >>

\* build_name is called with an unknown key next to a value its rule refuses.
UnknownKeyBesideInvalidValue ==
    /\ last.op = "build_name"
    /\ "extra" \in DOMAIN arg.kwargs
    /\ "side" \in DOMAIN arg.kwargs
    /\ "side" \in DOMAIN rules
    /\ arg.kwargs["side"].value # Empty
    /\ IsValidToken("side", arg.kwargs["side"].value) = Returned(FALSE)

\* The global constraints, stated on the name alone.
TooLong(name) ==
    global_rules.max_length > 0 /\ Len(name) > global_rules.max_length

HasForbidden(name) ==
    \E j \in 1..Len(global_rules.forbidden_patterns) :
        LET fp == global_rules.forbidden_patterns[j]
        IN  \E i \in 1..(Len(name) - Len(fp) + 1) :
                SubSeq(name, i, i + Len(fp) - 1) = fp

\* build_name got as far as the assembled name: no key was unknown, no value
\* was refused and no rule raised.
Assembled ==
    /\ last.op = "build_name"
    /\ last.out.exc \in {"none", "NamingValidationError"}
    /\ last.out.why \notin {"unknown_tokens", "invalid_value"}

\* C7: build_name raises a validation error exactly when the assembled name
\* is longer than a positive max_length or contains a forbidden substring,
\* and otherwise returns the assembled name; max_length 0 sets no limit.
GlobalRulesEnforced ==
    Assembled
        => /\ (last.out.exc = "NamingValidationError")
                  <=> (TooLong(ExpectedName) \/ HasForbidden(ExpectedName))
           /\ last.out.exc = "none" => last.out.val = ExpectedName
           /\ (last.out.exc = "NamingValidationError" /\ TooLong(ExpectedName))
                  => /\ last.out.limit = global_rules.max_length
                     /\ last.out.actual = Len(ExpectedName)

\* A name exactly as long as a positive max_length is returned.
BuildAtMaxLength ==
    /\ BuildReturned
    /\ global_rules.max_length > 0
    /\ Len(last.out.val) = global_rules.max_length

\* C8: whenever is_valid returns true, get_data of the name has a non-empty
\* value for every declared token and each value passes is_valid_token.
ValidMeansComplete ==
    (last.op = "is_valid" /\ last.exc = "none" /\ last.val)
        => LET d == GetDataOn(regex_cache, arg.name)
           IN  /\ d.exc = "none"
               /\ \A t \in TokenSet :
                      /\ d.val[t] # Empty
                      /\ IsValidToken(t, d.val[t]) = Returned(TRUE)

\* C9: is_valid never raises: it returns a boolean for every name and every
\* rule set, and false for the empty name.
IsValidNeverRaises ==
    last.op = "is_valid"
        => /\ last.exc = "none"
           /\ last.val \in BOOLEAN
           /\ arg.name = Empty => ~last.val

\* C10: parse never raises: it returns a TokenData mapping or the name it
\* was given, unmodified.
ParseNeverRaises ==
    last.op = "parse"
        => /\ last.exc = "none"
           /\ last.parsed \/ last.str = arg.name

\* The two tiers of parse, stated on the name: what get_data extracts when it
\* extracts anything, else the parts of the name assigned by position when
\* there are no more parts than tokens and every part passes is_valid_token,
\* else the name itself.
PositionalParts(name) == Split(name, separator)

PositionalOk(name) ==
    /\ Len(PositionalParts(name)) <= Len(tokens)
    /\ \A k \in 1..Len(PositionalParts(name)) :
           IsValidToken(tokens[k], PositionalParts(name)[k]) = Returned(TRUE)

PositionalData(name) ==
    [t \in TokenSet |->
        LET k == CHOOSE j \in 1..Len(tokens) : tokens[j] = t
        IN  IF k <= Len(PositionalParts(name)) THEN PositionalParts(name)[k]
            ELSE Empty]

Extracted(name) ==
    /\ name # Empty
    /\ GetDataOn(regex_cache, name).exc = "none"
    /\ \E t \in TokenSet : GetDataOn(regex_cache, name).val[t] # Empty

\* C11: parse returns get_data(name) when that has a non-empty value;
\* otherwise the positional mapping when the parts are no more than the
\* tokens and each passes is_valid_token; in every other case, and for the
\* empty string, the name unchanged.
ParseTwoTier ==
    last.op = "parse"
        => /\ last.exc = "none"
           /\ IF Extracted(arg.name)
              THEN last.parsed /\ last.data = GetDataOn(regex_cache, arg.name).val
              ELSE IF arg.name # Empty /\ PositionalOk(arg.name)
                   THEN last.parsed /\ last.data = PositionalData(arg.name)
                   ELSE ~last.parsed /\ last.str = arg.name

\* Where the separator stands in a name.
StartsWithSeparator(name) == OccursAt(name, separator, 0)
EndsWithSeparator(name) ==
    Len(name) >= Len(separator) /\ OccursAt(name, separator, Len(name) - Len(separator))
HasDoubleSeparator(name) ==
    \E i \in 0..Len(name) : OccursAt(name, separator \o separator, i)

\* is_valid has asked for the strict expression, which is in the cache.
StrictAsked == last.op = "is_valid" /\ StrictKey \in DOMAIN regex_cache

\* C16: with two tokens or more, the strict full-match expression matches no
\* name with two consecutive separators, a leading or a trailing separator.
StrictRejectsStraySeparators ==
    (StrictAsked /\ Len(tokens) >= 2
        /\ ReMatch(regex_cache[StrictKey], arg.name).m = "match")
        => /\ ~HasDoubleSeparator(arg.name)
           /\ ~StartsWithSeparator(arg.name)
           /\ ~EndsWithSeparator(arg.name)

\* get_data has asked for the lenient expression, which is in the cache.
LenientAsked == last.op = "get_data" /\ DataKey \in DOMAIN regex_cache

\* The name is made of valid values for the first tokens: its parts are no
\* more than the tokens, none is empty and each passes is_valid_token.
MadeOfValidValues(name) ==
    /\ name # Empty
    /\ Len(PositionalParts(name)) <= Len(tokens)
    /\ \A k \in 1..Len(PositionalParts(name)) :
           /\ PositionalParts(name)[k] # Empty
           /\ IsValidToken(tokens[k], PositionalParts(name)[k]) = Returned(TRUE)

\* C17: the lenient expression matches every name made of valid values for
\* the first k tokens, for k from 1 to the number of tokens, and matches no
\* name whose first token is missing or that has an empty interior slot.
LenientOptionalRightToLeft ==
    (LenientAsked /\ tokens # << >>)
        => /\ MadeOfValidValues(arg.name)
                  => ReMatch(regex_cache[DataKey], arg.name).m = "match"
           /\ (Len(tokens) >= 2
                  /\ (StartsWithSeparator(arg.name) \/ HasDoubleSeparator(arg.name)))
                  => ReMatch(regex_cache[DataKey], arg.name).m # "match"

ErrorKinds(errors) == {errors[j].kind : j \in 1..Len(errors)}

HoldsSeparator(value) ==
    \E i \in 1..(Len(value) - Len(separator) + 1) :
        SubSeq(value, i, i + Len(separator) - 1) = separator

\* C19: is_valid_token is false whenever the value contains the separator,
\* whatever the rule of the token says; otherwise it is what the rule's
\* validate gives for the value, and true for a token without a rule, a
\* token that is not declared included.
TokenCheckedBySeparatorThenRule ==
    last.op = "is_valid_token"
        => IF HoldsSeparator(arg.value)
           THEN last.exc = "none" /\ last.val = FALSE
           ELSE IF arg.token \in DOMAIN rules
                THEN [exc |-> last.exc, val |-> last.val]
                         = Validate(rules[arg.token], arg.value)
                ELSE last.exc = "none" /\ last.val = TRUE

\* A value with the separator in it is refused although the rule of the
\* token accepts it.
SeparatorOverridesRule ==
    /\ last.op = "is_valid_token"
    /\ HoldsSeparator(arg.value)
    /\ arg.token \in DOMAIN rules
    /\ Validate(rules[arg.token], arg.value) = Returned(TRUE)
    /\ last.val = FALSE

(***************************************************************************)
(* Properties of update_name and resolve_name (specification SpecBuilders). *)
(***************************************************************************)
\* What a builder answers: the exception and its reason, or the name.
Answer(o) == [exc |-> o.exc, why |-> o.why,
              val |-> IF o.exc = "none" THEN o.val ELSE Empty]

\* The mapping that takes data and replaces exactly the tokens of kwargs by
\* their normalized values.
Replaced(data, kwargs) ==
    [t \in DOMAIN data \cup DOMAIN kwargs |->
        Plain(IF t \in DOMAIN kwargs
              THEN NormalizeTokenValue(t, kwargs[t]).val
              ELSE data[t])]

ExtractsNothing(name) ==
    /\ GetDataOn(regex_cache, name).exc = "none"
    /\ \A t \in TokenSet : GetDataOn(regex_cache, name).val[t] = Empty

\* C13: when get_data extracts nothing, update_name of the empty name equals
\* build_name of the overrides; a non-empty name becomes the value of the
\* first token only if is_valid_token accepts it there, and otherwise a
\* validation error is raised and nothing is built.
UpdateSeedsFirstToken ==
    (last.op = "update_name" /\ ExtractsNothing(arg.name))
        => IF arg.name = Empty
           THEN Answer(last.out) = Answer(BuildName(arg.kwargs))
           ELSE IF tokens # << >> /\ IsValidToken(tokens[1], arg.name) = Returned(TRUE)
                THEN Answer(last.out)
                         = Answer(BuildName(Replaced(
                               [EmptyData EXCEPT ![tokens[1]] = arg.name], arg.kwargs)))
                ELSE /\ last.out.exc = "NamingValidationError"
                     /\ last.out.why = "unparsable"
                     /\ last.out.normalized = << >>
                     /\ last.out.checked = << >>

\* The mapping that assigns the i-th value of a sequence to the i-th token.
Positional(seq) ==
    [t \in {tokens[k] : k \in 1..Len(seq)} |->
        seq[CHOOSE j \in 1..Len(seq) : tokens[j] = t]]

ResolvedDirectly == last.op = "resolve_name" /\ ~Overridden(arg.ov)

\* C14: resolve_name of a sequence of at most as many values as there are
\* tokens equals build_name of the mapping that assigns the i-th value to the
\* i-th token, the raw values as they are; a longer sequence raises a
\* validation error.
ResolveSequenceIsBuild ==
    (ResolvedDirectly /\ arg.value.kind = "seq")
        => IF Len(arg.value.seq) <= Len(tokens)
           THEN Answer(last.out) = Answer(BuildName(Positional(arg.value.seq)))
           ELSE last.out.exc = "NamingValidationError"

\* C15: resolve_name with an override returns what a fresh Manager returns
\* for resolve_name(value), the fresh Manager having the overridden fields,
\* the caller's separator, global rules and other fields, and an empty
\* cache; the caller's tokens, rules, normalizers and regex cache are left
\* as they were.
ResolveOverrideIsTransient ==
    [][ /\ (pc = << >> /\ pc' # << >>)
            => /\ snap' = << Fields >>
               /\ tokens' = IF arg.ov.tokens.given THEN arg.ov.tokens.val ELSE tokens
               /\ rules' = IF arg.ov.rules.given THEN arg.ov.rules.val ELSE rules
               /\ normalizers' = IF arg.ov.normalizers.given
                                 THEN arg.ov.normalizers.val ELSE normalizers
               /\ separator' = separator
               /\ global_rules' = global_rules
               /\ regex_cache' = << >>
        /\ (pc # << >> /\ pc' = << >>)
            => /\ last'.op = "resolve_name"
               /\ last'.out = ResolveName(arg.value)
               /\ tokens' = snap[1].tokens
               /\ rules' = snap[1].rules
               /\ normalizers' = snap[1].normalizers
               /\ regex_cache' = snap[1].regex_cache
               /\ separator' = snap[1].separator
               /\ global_rules' = snap[1].global_rules ]_vars

\* A resolve_name with an override has returned a name that the caller's own
\* configuration would not have given, and the caller's cache has its entry.
ResolvedOnTransient ==
    /\ last.op = "resolve_name"
    /\ pc = << >>
    /\ Overridden(arg.ov)
    /\ last.out.exc = "none"
    /\ Answer(ResolveName(arg.value)) # Answer(last.out)
    /\ global_rules # Unconstrained
    /\ DataKey \in DOMAIN regex_cache

(***************************************************************************)
(* Properties of the global constraints (specification SpecGlobal).         *)
(***************************************************************************)
\* get_matching_regex for every cache key, on the current Manager.
GetMatchingRegexAnswer ==
    [key \in CacheKeys |-> GetMatchingRegexOn(regex_cache, key).ret]

\* The next Manager differs from this one in its global constraints only.
DiffersInGlobalRulesOnly ==
    /\ global_rules' # global_rules
    /\ tokens' = tokens
    /\ separator' = separator
    /\ rules' = rules
    /\ normalizers' = normalizers

\* What a reader gave on the Manager it was called on is what it gives on
\* the current Manager, whose global constraints may be different ones.
ReaderAnswersStand ==
    /\ last.op = "is_valid"
           => LET r == IsValidOn(regex_cache, arg.name)
              IN  last.exc = r.exc /\ last.val = r.val
    /\ last.op = "get_data"
           => LET r == GetDataOn(regex_cache, arg.name)
              IN  last.exc = r.exc /\ last.val = r.val
    /\ last.op = "parse"
           => LET r == ParseOn(regex_cache, arg.name)
              IN  /\ last.exc = r.exc /\ last.parsed = r.parsed
                  /\ last.data = r.data /\ last.str = r.str
    /\ last.op = "get_errors"
           => LET r == GetErrorsOn(regex_cache, arg.name)
              IN  last.exc = r.exc /\ last.errors = r.errors

\* resolve_name of a plain string gives the string back.
PlainStringReturned ==
    (last.op = "resolve_name" /\ arg.value.kind = "str")
        => last.out = BuildOutcome("none", arg.value.str, "", NoLog)

\* C20: the global constraints influence only build_name: two Managers that
\* differ only in max_length and forbidden_patterns give the same is_valid,
\* get_data, parse, get_errors and get_matching_regex results on every
\* input, and resolve_name of a plain string returns that string unchanged,
\* with no validation.
GlobalRulesOnlyInBuild ==
    /\ [][DiffersInGlobalRulesOnly
            => GetMatchingRegexAnswer' = GetMatchingRegexAnswer]_vars
    /\ [](ReaderAnswersStand /\ PlainStringReturned)

\* is_valid found a name valid on one Manager, and the Manager constructed
\* after it, its cache still empty, has global constraints that refuse the
\* name in build_name.
ValidUnderRefusingGlobalRules ==
    /\ last.op = "is_valid"
    /\ last.exc = "none" /\ last.val
    /\ regex_cache = << >>
    /\ (TooLong(arg.name) \/ HasForbidden(arg.name))

(***************************************************************************)
(* Properties of get_manager (specification SpecSingleton).                 *)
(***************************************************************************)
\* C21: get_manager constructs the singleton Manager at most once, and
\* every call, the calls that race on the first use included, returns the
\* same instance.
SingletonConstructedOnce ==
    /\ Cardinality({t \in Callers : snap[t].temp # NoInstance}) <= 1
    /\ \A t, u \in Callers :
           (snap[t].ret # NoInstance /\ snap[u].ret # NoInstance)
               => snap[t].ret = snap[u].ret

(***************************************************************************)
(* Properties of validate_convention (specification SpecConvention).        *)
(***************************************************************************)
\* A token name shaped as an identifier: a letter or an underscore, then
\* letters, digits and underscores.
IdentifierShaped(t) ==
    /\ t # Empty
    /\ t[1] \in {"a", "b", "A", "_"}
    /\ \A j \in 1..Len(t) : t[j] \in {"a", "b", "A", "1", "_"}

\* The first violation of a convention, in the order of the checks: "" when
\* there is none.
FirstViolation(a) ==
    IF a.tokens = << >> THEN "empty_tokens"
    ELSE IF \E j, k \in 1..Len(a.tokens) : j # k /\ a.tokens[j] = a.tokens[k]
         THEN "duplicates"
    ELSE IF a.separator = Empty THEN "empty_separator"
    ELSE IF /\ a.separator_rule.given
            /\ a.separator_rule.type = "regex"
            /\ ~(/\ a.separator_rule.is_str
                 /\ Compiles(a.separator_rule.value)
                 /\ FullMatch(a.separator_rule.value, a.separator))
         THEN "separator_rule"
    ELSE IF \E k \in 1..Len(a.tokens) : ~IdentifierShaped(a.tokens[k])
         THEN "identifier"
    ELSE ""

\* C22: validate_convention raises a configuration error exactly when the
\* token list is empty, a token name is duplicated, the separator is empty,
\* the separator does not fully match a regex separator rule, or a token
\* name is not identifier-shaped, and it reports the first violation in
\* that order; a token without a rule never causes an error.
ConventionRaisesFirstViolation ==
    last.op = "validate_convention"
        => /\ (last.out.exc = "RuleBuilderError") <=> (FirstViolation(arg) # "")
           /\ last.out.exc = "RuleBuilderError" => last.out.why = FirstViolation(arg)
           /\ FirstViolation(arg) = "" => last.out.exc = "none"

(***************************************************************************)
(* Properties of the rules (specification SpecRules).                       *)
(***************************************************************************)
\* C23: validate of a predicate rule whose stored reference is not invocable
\* raises an error of the naming configuration-error kind, not a generic
\* one, and never returns a boolean.
NonInvocableRaisesConfigError ==
    (/\ last.op = "validate"
     /\ arg.rule.kind = "callable"
     /\ arg.rule.func = "not_callable")
        => last.exc = "NamingConfigError"

\* C27: for every fixed-set rule and every candidate string, validate is
\* true if and only if the regex fragment of the rule fully matches the
\* string, the empty allowed set and a set holding the empty string
\* included.
FixedSetAgreesWithFragment ==
    (last.op = "validate" /\ arg.rule.kind = "list")
        => /\ last.exc = "none"
           /\ last.val <=> FullMatch(ToRegexPattern(arg.rule), arg.value)

(***************************************************************************)
(* Properties of every operation (specification SpecFrame).                 *)
(***************************************************************************)
\* The Manager the operations are called on: while resolve_name runs on its
\* transient Manager, the caller's Manager is the one kept aside.
CalledOn == IF pc = << >> THEN Fields ELSE snap[1]

\* C24: no read or build operation changes the configuration: build_name,
\* update_name, resolve_name, parse, get_data, get_token_value, is_valid,
\* is_valid_token, get_errors and get_matching_regex leave tokens,
\* separator, rules, normalizers and global rules as they were, whether they
\* return or raise; the regex cache is all they may write, and only
\* add_rule and remove_rule change the rule map.
OnlyMutatorsChangeConfiguration ==
    [][ /\ CalledOn'.tokens = CalledOn.tokens
        /\ CalledOn'.separator = CalledOn.separator
        /\ CalledOn'.normalizers = CalledOn.normalizers
        /\ CalledOn'.global_rules = CalledOn.global_rules
        /\ CalledOn'.rules # CalledOn.rules
               => last'.op \in {"add_rule", "remove_rule"}
        /\ manager_instance' = manager_instance ]_vars

\* resolve_name with overrides has raised on its transient Manager, whose
\* tokens or rules were not the caller's, and the caller's cache has been
\* written by an earlier get_data.
RaisedOnTransientAfterCacheWrite ==
    /\ pc = << >>
    /\ last.op = "resolve_name"
    /\ last.out.exc # "none"
    /\ Overridden(arg.ov)
    /\ regex_cache # << >>

(***************************************************************************)
(* Properties of the normalization of token values.                         *)
(***************************************************************************)
\* The value build_name was given for a token: absent keys count as "".
GivenFor(token) ==
    IF token \in DOMAIN arg.kwargs THEN arg.kwargs[token] ELSE Plain(Empty)

\* Unwrap, then the token's normalizer if one is registered, then trim; an
\* empty unwrapped value stays empty.
UnwrapNormalizeTrim(token) ==
    LET unwrapped == GivenFor(token).value
    IN  IF unwrapped = Empty THEN Empty
        ELSE IF token \in DOMAIN normalizers
             THEN Strip(ApplyNormalizer(normalizers[token], unwrapped))
             ELSE Strip(unwrapped)

\* The tokens build_name went through, each with its trimmed result, less
\* those whose result is "".
PresentAmong(n) ==
    SelectSeq([i \in 1..n |-> [token |-> tokens[i],
                               given |-> UnwrapNormalizeTrim(tokens[i])]],
              LAMBDA e : e.given # Empty)

\* C25: normalization of a token value runs in the fixed order unwrap the
\* enumerated label, apply the token's normalizer if one is registered, trim
\* whitespace; an empty input yields "" without the normalizer being
\* invoked, so a normalizer is never called with an empty value; build_name
\* validates the trimmed result and treats a value that normalizes to "" as
\* absent.
NormalizedInFixedOrder ==
    (last.op = "build_name" /\ last.out.why # "unknown_tokens")
        => LET done == last.out.normalized
               present == PresentAmong(Len(done))
           IN  /\ \A i \in DOMAIN done :
                      /\ done[i].token = tokens[i]
                      /\ done[i].given = GivenFor(tokens[i]).value
                      /\ done[i].applied
                             <=> (done[i].given # Empty
                                    /\ tokens[i] \in DOMAIN normalizers)
               /\ last.out.checked = present
               /\ last.out.exc = "none"
                      => /\ Len(done) = Len(tokens)
                         /\ last.out.val
                                = JoinWith([i \in DOMAIN present |-> present[i].given],
                                           separator)

\* build_name returned a name after a normalizer was applied to an enumerated
\* label's or a plain string's value, its result was trimmed, and another
\* token's value normalized to "" was left out.
BuiltAfterNormalizeThenTrim ==
    /\ last.op = "build_name"
    /\ last.out.exc = "none"
    /\ \E i \in DOMAIN last.out.normalized :
           LET e == last.out.normalized[i]
           IN  /\ e.applied
               /\ ApplyNormalizer(normalizers[e.token], e.given)
                      # UnwrapNormalizeTrim(e.token)
               /\ UnwrapNormalizeTrim(e.token) # Empty
    /\ \E t \in DOMAIN arg.kwargs :
           /\ t \in TokenSet
           /\ arg.kwargs[t].value # Empty
           /\ UnwrapNormalizeTrim(t) = Empty

(***************************************************************************)
(* Properties of the names build_name returns.                              *)
(***************************************************************************)
\* The values build_name joined: those it handed to is_valid_token.
JoinedValues == [i \in DOMAIN last.out.checked |-> last.out.checked[i].given]

\* C26: in every name returned by build_name, for single-character and
\* multi-character separators alike, no token value contains the separator
\* and splitting the name on the separator yields exactly the non-empty
\* normalized token values in token order, so the name has one separator
\* occurrence fewer than it has non-empty tokens.
BuiltNameSplitsIntoValues ==
    (last.op = "build_name" /\ last.out.exc = "none")
        => /\ \A i \in DOMAIN JoinedValues : ~Contains(JoinedValues[i], separator)
           /\ Split(last.out.val, separator) = JoinedValues
           /\ Len(Split(last.out.val, separator)) - 1 = Len(JoinedValues) - 1

(***************************************************************************)
(* Properties of parse.                                                     *)
(***************************************************************************)
\* is_valid_token returns True for the value.
PassesIsValidToken(token, value) ==
    IsValidToken(token, value) = Returned(TRUE)

\* C28: whenever parse(name) returns a TokenData mapping, by the regex tier
\* or by the positional tier, at least one value is non-empty and every
\* non-empty value in it passes is_valid_token for its token.
ParsedDataHoldsValidValues ==
    (last.op = "parse" /\ last.exc = "none" /\ last.parsed)
        => /\ \E t \in TokenSet : last.data[t] # Empty
           /\ \A t \in TokenSet :
                  last.data[t] # Empty => PassesIsValidToken(t, last.data[t])

(***************************************************************************)
(* Properties of update_name on the names build_name returns.               *)
(***************************************************************************)
\* The pieces of a name: "" and every run of consecutive characters of it.
PiecesOf(n) == {SubSeq(n, i, j) : i \in 1..(Len(n) + 1), j \in 0..Len(n)}

\* build_name returns the name n for some values of the declared tokens.
BuildReturns(n) ==
    \E m \in [TokenSet -> PiecesOf(n)] :
        LET b == BuildName([t \in TokenSet |-> Plain(m[t])])
        IN  b.exc = "none" /\ b.val = n

\* C29: update_name is the identity on build_name's outputs: with no
\* normalizers registered, for every non-empty name n that build_name
\* returned, update_name(n) with no overrides returns n and does not raise.
UpdateIsIdentityOnBuiltNames ==
    (/\ last.op = "update_name"
     /\ arg.kwargs = << >>
     /\ arg.name # Empty
     /\ normalizers = NoNormalizers
     /\ BuildReturns(arg.name))
        => (last.out.exc = "none" /\ last.out.val = arg.name)

(***************************************************************************)
(* Properties of the errors of the builders (specification SpecFrame).      *)
(***************************************************************************)
\* The exception of the last call of build_name, update_name, resolve_name
\* or get_token_value: "none" when it returned its string.
EscapedFromBuilder ==
    IF last.op \in {"build_name", "update_name", "resolve_name"} THEN last.out.exc
    ELSE IF last.op = "get_token_value" THEN last.exc
    ELSE "none"

\* C30: on every Manager whose construction succeeded, including one
\* constructed with an empty token list, each call of build_name,
\* update_name, resolve_name or get_token_value either returns a string or
\* raises a naming validation error; no other kind of error escapes.
OnlyValidationErrorsEscape ==
    EscapedFromBuilder \in {"none", "NamingValidationError"}

(***************************************************************************)
(* Properties of the regex cache (specifications SpecCache and SpecConc).   *)
(***************************************************************************)
\* C3: in a sequential series of get_matching_regex, add_rule and
\* remove_rule calls, every get_matching_regex call returns the expression
\* derived from the rules current at that call.
NoStaleRegex ==
    last.op = "get_matching_regex" => last.ret = ComputeRegex(rules, last.key)

\* A call is served from the cache after the rules were changed: the
\* convention with the two-character separator is constructed without rules.
CacheHitAfterMutation ==
    /\ last.op = "get_matching_regex"
    /\ last.hit
    /\ separator = DoubleDash
    /\ rules # NoRules

\* C4: once the mutator has returned and the readers in flight have
\* finished, the cache holds no entry derived from rules that were replaced.
NoStaleEntryAtRest ==
    (\A t \in Threads : pc[t] = "idle")
        => \A k \in DOMAIN regex_cache : regex_cache[k] = ComputeRegex(rules, k)

=============================================================================
